---- MODULE Spec2Model ----
(***************************************************************************)
(* Model of components/script/dom/websocket.rs: one WebSocket DOM object,  *)
(* the worker thread its constructor spawns for the opening handshake, the *)
(* script task's queue of runnables, and the script-visible Send and Close *)
(* methods.                                                                *)
(***************************************************************************)
EXTENDS Integers, Sequences, FiniteSets, TLC

\* ------------------------------------------------------------------------
\* Values
\* ------------------------------------------------------------------------

\* Option<T>: None is the empty tuple, Some(x) the one-element tuple.
None == <<>>
Some(x) == <<x>>
unwrap(o) == o[1]

\* enum WebSocketRequestState, with its discriminants (ReadyState casts to them).
WebSocketRequestState == {"Connecting", "Open", "Closing", "Closed"}

ReadyStateValue(s) ==
    CASE s = "Connecting" -> 0
      [] s = "Open"       -> 1
      [] s = "Closing"    -> 2
      [] s = "Closed"     -> 3

\* A string is kept as a sequence of runs <<code point, repetitions>>, so that
\* a 124-byte reason is a small value.  Every run has repetitions >= 1.

\* Number of bytes of the UTF-8 encoding of one code point (str::as_bytes).
Utf8Len(cp) ==
    IF cp < 128 THEN 1
    ELSE IF cp < 2048 THEN 2
    ELSE IF cp < 65536 THEN 3
    ELSE 4

RECURSIVE ByteLen(_)
ByteLen(s) == IF s = <<>> THEN 0 ELSE s[1][2] * Utf8Len(s[1][1]) + ByteLen(Tail(s))

\* ------------------------------------------------------------------------
\* Inputs the callers are drawn from
\* ------------------------------------------------------------------------

MaxReasonBytes == 123

\* "bye", 123 and 124 one-byte characters, 41 and 42 three-byte characters
\* (123 and 126 bytes), 61 two-byte characters plus one ASCII (123 bytes),
\* 62 two-byte characters (124 bytes in 62 characters).
Bye == << <<98, 1>>, <<121, 1>>, <<101, 1>> >>
Reasons ==
    { <<>>, Bye,
      << <<97, 123>> >>, << <<97, 124>> >>,
      << <<8364, 41>> >>, << <<8364, 42>> >>,
      << <<233, 61>>, <<97, 1>> >>, << <<233, 62>> >> }

Codes == {0, 999, 1000, 1001, 2999, 3000, 4999, 5000, 65535}

\* Every value of the u16 code argument.
U16Max == 65535
AllCodes == 0..U16Max

\* Reasons of one run, or of one run and a short second one, over code points
\* of 1, 2, 3 and 4 bytes.
MaxRun == 125
MaxTail == 2
ReasonCodePoints == {97, 233, 8364, 128512}
AllReasons ==
    {<<>>}
    \cup { << <<cp, n>> >> : cp \in ReasonCodePoints, n \in 1..MaxRun }
    \cup { << <<p[1], n>>, <<p[2], m>> >> :
             p \in {q \in ReasonCodePoints \X ReasonCodePoints : q[1] # q[2]},
             n \in 1..MaxRun, m \in 1..MaxTail }

CodeArgs == {None} \cup {Some(c) : c \in Codes}
ReasonArgs == {None} \cup {Some(r) : r \in Reasons}

Hi == << <<104, 1>>, <<105, 1>> >>
DataArgs == {None, Some(<<>>), Some(Hi)}

\* URLs by what the two parsers make of them: Url::parse accepts the first
\* three, parse_url only the ws and wss ones.
Urls == {"ws://host/", "wss://host/", "http://host/", "not a url"}

\* Subprotocol strings (plain code-point sequences) for the constructor.
Protocols == { <<>>, <<97>>, <<65>>, <<33>>, <<126>>, <<32>>, <<127>>, <<97, 32>> }
ProtocolArgs == {None} \cup {Some(p) : p \in Protocols}

\* ------------------------------------------------------------------------
\* State
\* ------------------------------------------------------------------------

VARIABLES
    created,      \* the constructor has returned Ok(ws)
    ready_state,  \* WebSocket.ready_state
    sender,       \* WebSocket.sender : Option<Sender>
    failed,       \* WebSocket.failed
    full,         \* WebSocket.full
    clean_close,  \* WebSocket.clean_close
    code,         \* WebSocket.code
    reason,       \* WebSocket.reason
    worker,       \* the spawned thread: "none", "running", "done"
    handshake,    \* outcome of establish_a_websocket_connection: "pending", "ok", "err"
    queue,        \* runnables sent to the script task and not yet run
    alive,        \* the script task has not panicked
    events,       \* events fired at the WebSocket, in order
    last,         \* the operation that ran last: op, args, result, frames it sent
    ever_open,    \* history: ready_state has been Open
    early_close,  \* history: Close took its Connecting branch
    open_close,   \* history: arguments of the Close that took its Open branch
    close_ok,     \* history: a call of Close has returned Ok
    ran           \* history: the runnables the script task has run, in order

vars == << created, ready_state, sender, failed, full, clean_close, code, reason,
           worker, handshake, queue, alive, events, last, ever_open, early_close,
           open_close, close_ok, ran >>

fields == << ready_state, sender, failed, full, clean_close, code, reason >>

Op(op, args, result, tx) == [op |-> op, args |-> args, result |-> result, tx |-> tx]

\* ------------------------------------------------------------------------
\* WebSocket::new_inherited
\* ------------------------------------------------------------------------

new_inherited ==
    [ ready_state |-> "Connecting", failed |-> FALSE, sender |-> None,
      full |-> FALSE, clean_close |-> TRUE, code |-> 0, reason |-> <<>> ]

Init ==
    /\ created = FALSE
    /\ ready_state = new_inherited.ready_state
    /\ sender = new_inherited.sender
    /\ failed = new_inherited.failed
    /\ full = new_inherited.full
    /\ clean_close = new_inherited.clean_close
    /\ code = new_inherited.code
    /\ reason = new_inherited.reason
    /\ worker = "none"
    /\ handshake = "pending"
    /\ queue = <<>>
    /\ alive = TRUE
    /\ events = <<>>
    /\ last = Op("none", <<>>, "Ok", <<>>)
    /\ ever_open = FALSE
    /\ early_close = FALSE
    /\ open_close = None
    /\ close_ok = FALSE
    /\ ran = <<>>

\* ------------------------------------------------------------------------
\* WebSocket::Constructor
\* ------------------------------------------------------------------------

UrlParse(url) == url # "not a url"
parse_url(url) == url \in {"ws://host/", "wss://host/"}

\* Option::as_slice: zero or one element.
as_slice(o) == IF o = None THEN <<>> ELSE <<unwrap(o)>>

\* Variant: the lower end of the printable range is exclusive.
ProtocolRejected_ExclusiveLower(protocols, i) ==
    LET protocol == protocols[i] IN
    \/ protocol = <<>>
    \/ \E j \in (i + 1)..Len(protocols) : protocols[j] = protocol
    \/ \E k \in 1..Len(protocol) : protocol[k] <= 33 \/ protocol[k] > 126

\* Step 5, for the entry at index i of the list.
ProtocolRejected(protocols, i) ==
    LET protocol == protocols[i] IN
    \/ protocol = <<>>
    \/ \E j \in (i + 1)..Len(protocols) : protocols[j] = protocol
    \/ \E k \in 1..Len(protocol) : protocol[k] < 33 \/ protocol[k] > 126

\* Step 5: the loop over the slice returns Err(Syntax) at the first entry
\* that is rejected.
ProtocolsRejected(protocols) ==
    \E i \in 1..Len(protocols) : ProtocolRejected(protocols, i)

ConstructorResult(url, protocols) ==
    IF ~UrlParse(url) THEN "Syntax"
    ELSE IF ~parse_url(url) THEN "Syntax"
    ELSE IF ProtocolsRejected(as_slice(protocols)) THEN "Syntax"
    ELSE "Ok"

Constructor(url, protocols) ==
    /\ ~created
    /\ alive
    /\ LET res == ConstructorResult(url, protocols) IN
       /\ last' = Op("Constructor", <<url, protocols>>, res, <<>>)
       /\ IF res = "Ok"
          THEN /\ created' = TRUE
               /\ ready_state' = new_inherited.ready_state
               /\ sender' = new_inherited.sender
               /\ failed' = new_inherited.failed
               /\ full' = new_inherited.full
               /\ clean_close' = new_inherited.clean_close
               /\ code' = new_inherited.code
               /\ reason' = new_inherited.reason
               /\ worker' = "running"
          ELSE UNCHANGED << created, fields, worker >>
    /\ UNCHANGED << handshake, queue, alive, events, ever_open, early_close, open_close,
                    close_ok, ran >>

\* ------------------------------------------------------------------------
\* The spawned thread (Constructor, the closure given to spawn_named)
\* ------------------------------------------------------------------------

\* Variant: the failure arm does not return, so the thread goes on to send
\* the established task as well.
WorkerTasks_FallsThrough(ok) ==
    IF ok THEN << "ConnectionEstablishedTask" >>
    ELSE << "CloseTask", "ConnectionEstablishedTask" >>

\* Variant: after a successful handshake the thread also sends a CloseTask.
WorkerTasks_ThenCloses(ok) ==
    IF ok THEN << "ConnectionEstablishedTask", "CloseTask" >> ELSE << "CloseTask" >>

\* Variant: the failure arm returns without sending its CloseTask.
WorkerTasks_DropsFailure(ok) ==
    IF ok THEN << "ConnectionEstablishedTask" >> ELSE <<>>

\* The runnables the thread sends for an outcome of the handshake.
WorkerTasks(ok) ==
    IF ok THEN << "ConnectionEstablishedTask" >> ELSE << "CloseTask" >>

Worker(ok) ==
    /\ worker = "running"
    /\ handshake' = IF ok THEN "ok" ELSE "err"
    /\ queue' = queue \o WorkerTasks(ok)
    /\ worker' = "done"
    /\ last' = Op("Worker", <<ok>>, "Ok", <<>>)
    /\ UNCHANGED << created, fields, alive, events, ever_open, early_close, open_close,
                    close_ok, ran >>

\* ------------------------------------------------------------------------
\* WebSocketMethods::Send
\* ------------------------------------------------------------------------

\* Variant: Connecting shares the arm of Closing and Closed.
SendOutcome_ConnectingIgnored(rs, snd, data) ==
    CASE rs \in {"Connecting", "Closing", "Closed"} -> "Ok"
      [] rs = "Open" ->
            IF snd = None THEN "Panic"
            ELSE IF data = None THEN "Panic"
            ELSE "Transmit"

\* What Send does for a ready state, a sender slot and a data argument:
\* the match on ready_state, then the two unwraps, then send_message.
SendOutcome(rs, snd, data) ==
    CASE rs = "Connecting" -> "InvalidState"
      [] rs \in {"Closing", "Closed"} -> "Ok"
      [] rs = "Open" ->
            IF snd = None THEN "Panic"
            ELSE IF data = None THEN "Panic"
            ELSE "Transmit"

\* sent_ok is the result of send_message, which Send discards.
Send(data, sent_ok) ==
    /\ created
    /\ alive
    /\ LET out == SendOutcome(ready_state, sender, data) IN
       /\ last' = Op("Send", <<data>>,
                     IF out = "Transmit" THEN "Ok" ELSE out,
                     IF out = "Transmit"
                     THEN << [frame |-> <<"Text", unwrap(data)>>, ok |-> sent_ok] >>
                     ELSE <<>>)
       /\ alive' = (out # "Panic")
    /\ UNCHANGED << created, fields, worker, handshake, queue, events,
                    ever_open, early_close, open_close, close_ok, ran >>

\* ------------------------------------------------------------------------
\* WebSocketMethods::Close
\* ------------------------------------------------------------------------

\* Variant: the upper end of the range is exclusive.
ValidCloseCode_ExclusiveUpper(c) == ~(c # 1000 /\ (c < 3000 \/ c >= 4999))

\* "Check code is NOT 1000 NOR in the range of 3000-4999 (inclusive)"
ValidCloseCode(c) == ~(c # 1000 /\ (c < 3000 \/ c > 4999))

\* Number of characters of a string.
RECURSIVE CharCount(_)
CharCount(s) == IF s = <<>> THEN 0 ELSE s[1][2] + CharCount(Tail(s))

\* Variant: the limit is applied to the number of characters.
ValidCloseReason_CharCount(r) == ~(CharCount(r) > MaxReasonBytes)

\* "reason cannot be larger than 123 bytes"
ValidCloseReason(r) == ~(ByteLen(r) > MaxReasonBytes)

\* Variant: the reason is checked before the code.
CloseError_ReasonFirst(c, r) ==
    IF r # None /\ ~ValidCloseReason(unwrap(r)) THEN "Syntax"
    ELSE IF c # None /\ ~ValidCloseCode(unwrap(c)) THEN "InvalidAccess"
    ELSE "Ok"

\* The two argument checks, in the order Close makes them.
CloseError(c, r) ==
    IF c # None /\ ~ValidCloseCode(unwrap(c)) THEN "InvalidAccess"
    ELSE IF r # None /\ ~ValidCloseReason(unwrap(r)) THEN "Syntax"
    ELSE "Ok"

\* Variant: only Closed is ignored; Closing is handled like Open.
CloseBranch_ClosingReopens(rs) ==
    CASE rs = "Closed" -> "nothing"
      [] rs = "Connecting" -> "connecting"
      [] rs \in {"Open", "Closing"} -> "open"

\* Variant: Connecting is handled like Open, storing the code and reason.
CloseBranch_ConnectingStores(rs) ==
    CASE rs \in {"Closing", "Closed"} -> "nothing"
      [] rs \in {"Connecting", "Open"} -> "open"

\* The arm of the match on ready_state that Close takes.
CloseBranch(rs) ==
    CASE rs \in {"Closing", "Closed"} -> "nothing"
      [] rs = "Connecting" -> "connecting"
      [] rs = "Open" -> "open"

\* Variant: send_close sends without looking at the sender slot.
send_close_tx_Always(snd, sent_ok) ==
    << [frame |-> <<"Close", None>>, ok |-> sent_ok] >>

\* Variant: send_close only sets the state.
send_close_tx_Never(snd, sent_ok) == <<>>

\* send_close: the frames it sends given the sender slot.
send_close_tx(snd, sent_ok) ==
    IF snd # None THEN << [frame |-> <<"Close", None>>, ok |-> sent_ok] >> ELSE <<>>

Close(c, r, sent_ok) ==
    /\ created
    /\ alive
    /\ LET err == CloseError(c, r)
           branch == CloseBranch(ready_state) IN
       /\ close_ok' = (close_ok \/ err = "Ok")
       /\ IF err # "Ok"
          THEN /\ last' = Op("Close", <<c, r>>, err, <<>>)
               /\ UNCHANGED << fields, early_close, open_close >>
          ELSE CASE branch = "nothing" ->
                       /\ last' = Op("Close", <<c, r>>, "Ok", <<>>)
                       /\ UNCHANGED << fields, early_close, open_close >>
                 [] branch = "connecting" ->
                       /\ failed' = TRUE
                       /\ ready_state' = "Closing"
                       /\ last' = Op("Close", <<c, r>>, "Ok", send_close_tx(sender, sent_ok))
                       /\ early_close' = TRUE
                       /\ UNCHANGED << sender, full, clean_close, code, reason, open_close >>
                 [] branch = "open" ->
                       /\ code' = IF c # None THEN unwrap(c) ELSE code
                       /\ reason' = IF r # None THEN unwrap(r) ELSE reason
                       /\ ready_state' = "Closing"
                       /\ last' = Op("Close", <<c, r>>, "Ok", send_close_tx(sender, sent_ok))
                       /\ open_close' = Some(<<c, r>>)
                       /\ UNCHANGED << sender, failed, full, clean_close, early_close >>
    /\ UNCHANGED << created, worker, handshake, queue, alive, events, ever_open, ran >>

\* ------------------------------------------------------------------------
\* ConnectionEstablishedTask::handler
\* ------------------------------------------------------------------------

\* Events are tuples: <<"open">>, <<"error">>, <<"close", wasClean, code, reason>>.
OpenEvent == << "open" >>
ErrorEvent == << "error" >>
CloseEvent(wasClean, c, r) == << "close", wasClean, c, r >>

\* Variant: the handler drops the sender instead of storing it.
StoredSender_Dropped(s) == None

\* The value the handler stores in ws.sender.
StoredSender(s) == Some(s)

\* The open event fires last, after both writes, so what a listener does
\* from inside it is what the same call does right after the handler.
ConnectionEstablishedTask_handler ==
    /\ created
    /\ alive
    /\ queue # <<>>
    /\ Head(queue) = "ConnectionEstablishedTask"
    /\ queue' = Tail(queue)
    /\ sender' = StoredSender("temp_sender")
    /\ ready_state' = "Open"
    /\ events' = Append(events, OpenEvent)
    /\ ever_open' = TRUE
    /\ ran' = Append(ran, "ConnectionEstablishedTask")
    /\ last' = Op("ConnectionEstablishedTask", <<>>, "Ok", <<>>)
    /\ UNCHANGED << created, failed, full, clean_close, code, reason, worker,
                    handshake, alive, early_close, open_close, close_ok >>

\* ------------------------------------------------------------------------
\* CloseTask::handler
\* ------------------------------------------------------------------------

\* Variant: the error path needs both flags.
BadClose_Both(f, q) == f /\ q

\* "If failed or full, fire error event"
BadClose(f, q) == f \/ q

\* ready_state is Closed before either event fires, so a listener calling
\* Send or Close from inside the error or close event changes no field.
CloseTask_handler ==
    /\ created
    /\ alive
    /\ queue # <<>>
    /\ Head(queue) = "CloseTask"
    /\ queue' = Tail(queue)
    /\ ready_state' = "Closed"
    /\ IF BadClose(failed, full)
       THEN /\ failed' = FALSE
            /\ full' = FALSE
            /\ clean_close' = FALSE
            /\ events' = events \o << ErrorEvent, CloseEvent(FALSE, code, reason) >>
       ELSE /\ UNCHANGED << failed, full, clean_close >>
            /\ events' = Append(events, CloseEvent(clean_close, code, reason))
    /\ ran' = Append(ran, "CloseTask")
    /\ last' = Op("CloseTask", <<>>, "Ok", <<>>)
    /\ UNCHANGED << created, sender, code, reason, worker, handshake, alive,
                    ever_open, early_close, open_close, close_ok >>

\* ------------------------------------------------------------------------
\* Specification
\* ------------------------------------------------------------------------

Next ==
    \/ \E url \in Urls, protocols \in ProtocolArgs : Constructor(url, protocols)
    \/ \E ok \in BOOLEAN : Worker(ok)
    \/ \E data \in DataArgs, sent_ok \in BOOLEAN : Send(data, sent_ok)
    \/ \E c \in CodeArgs, r \in ReasonArgs, sent_ok \in BOOLEAN : Close(c, r, sent_ok)
    \/ ConnectionEstablishedTask_handler
    \/ CloseTask_handler

Spec == Init /\ [][Next]_vars

\* ------------------------------------------------------------------------
\* Helpers for the properties
\* ------------------------------------------------------------------------

IsOpenEvent(e) == e[1] = "open"
IsErrorEvent(e) == e[1] = "error"
IsCloseEvent(e) == e[1] = "close"

\* Nothing is left to run: the thread has sent its runnables and the script
\* task has run them all.
Quiescent == worker = "done" /\ queue = <<>>

CodeArgValid(c) == c = None \/ unwrap(c) = 1000 \/ (unwrap(c) >= 3000 /\ unwrap(c) <= 4999)
ReasonArgValid(r) == r = None \/ ByteLen(unwrap(r)) <= 123

FieldsUnchanged == UNCHANGED << ready_state, sender, failed, full, clean_close, code, reason >>

\* ------------------------------------------------------------------------
\* C1
\* ------------------------------------------------------------------------

\* C1: for a connection whose handshake failed, no open event is ever fired,
\* and the events fired are exactly one error event followed by one close
\* event with wasClean = false: nothing while the CloseTask is still queued,
\* exactly that pair once it has run.
C1_FailedHandshakeFiresErrorThenClose ==
    handshake = "err" =>
        /\ \A i \in 1..Len(events) : ~IsOpenEvent(events[i])
        /\ queue # <<>> => events = <<>>
        /\ queue = <<>> =>
              /\ Len(events) = 2
              /\ IsErrorEvent(events[1])
              /\ IsCloseEvent(events[2])
              /\ events[2][2] = FALSE

\* ------------------------------------------------------------------------
\* C2
\* ------------------------------------------------------------------------

\* C2: when Close ran while Connecting and the handshake then succeeded, by
\* the time nothing is left to run the CloseTask has run: an error event
\* followed by a close event with wasClean = false has been fired.
C2_EarlyCloseThenSuccessFiresErrorClose ==
    (early_close /\ handshake = "ok" /\ Quiescent) =>
        \E i, j \in 1..Len(events) :
            /\ i < j
            /\ IsErrorEvent(events[i])
            /\ IsCloseEvent(events[j])
            /\ events[j][2] = FALSE

\* ------------------------------------------------------------------------
\* C3
\* ------------------------------------------------------------------------

\* C3: ready_state never moves backward in Connecting < Open < Closing <
\* Closed, and never leaves Closed.
C3_ReadyStateMonotonic ==
    [][ /\ ReadyStateValue(ready_state') >= ReadyStateValue(ready_state)
        /\ ready_state = "Closed" => ready_state' = "Closed" ]_vars

\* ------------------------------------------------------------------------
\* C4
\* ------------------------------------------------------------------------

\* C4: after Close(code, reason) with valid arguments ran while Open, by the
\* time nothing is left to run a close event with wasClean = true, that code
\* and that reason has been fired, and no error event has been.
C4_CloseWhileOpenFiresCleanClose ==
    (open_close # None /\ unwrap(open_close)[1] # None /\ unwrap(open_close)[2] # None
        /\ Quiescent) =>
        /\ \E i \in 1..Len(events) :
              events[i] = CloseEvent(TRUE, unwrap(unwrap(open_close)[1]),
                                     unwrap(unwrap(open_close)[2]))
        /\ \A i \in 1..Len(events) : ~IsErrorEvent(events[i])

\* ------------------------------------------------------------------------
\* C5
\* ------------------------------------------------------------------------

\* C5: no open event is fired after a close event.
C5_NoOpenAfterClose ==
    \A i, j \in 1..Len(events) :
        (i < j /\ IsCloseEvent(events[i])) => ~IsOpenEvent(events[j])

\* A close event has been fired and calls were made after it.
C5_Witness ==
    /\ \E i \in 1..Len(events) : IsCloseEvent(events[i])
    /\ Quiescent
    /\ last.op = "Send"

\* ------------------------------------------------------------------------
\* C6
\* ------------------------------------------------------------------------

\* C6: Send while Connecting returns InvalidState, transmits nothing and
\* changes no field of the WebSocket.
C6_SendWhileConnecting ==
    [][ (last'.op = "Send" /\ ready_state = "Connecting") =>
            /\ last'.result = "InvalidState"
            /\ last'.tx = <<>>
            /\ FieldsUnchanged ]_vars

C6_Witness ==
    /\ last.op = "Send"
    /\ last.result = "InvalidState"
    /\ ready_state = "Connecting"
    /\ sender = None

\* ------------------------------------------------------------------------
\* C7
\* ------------------------------------------------------------------------

\* C7: while Closing or Closed, Send, and Close with valid arguments, return
\* Ok, transmit no frame, fire no event and change no field.
C7_NoOpWhenClosingOrClosed ==
    [][ ( /\ ready_state \in {"Closing", "Closed"}
          /\ \/ last'.op = "Send"
             \/ /\ last'.op = "Close"
                /\ CodeArgValid(last'.args[1])
                /\ ReasonArgValid(last'.args[2]) ) =>
            /\ last'.result = "Ok"
            /\ last'.tx = <<>>
            /\ events' = events
            /\ FieldsUnchanged ]_vars

\* A second Close, with a code and a reason, while Closing with a sender in
\* place and another code stored.
C7_Witness ==
    /\ ready_state = "Closing"
    /\ sender # None
    /\ last.op = "Close"
    /\ last.result = "Ok"
    /\ last.args = << Some(3000), Some(Bye) >>
    /\ code = 1000
    /\ reason = <<>>

\* ------------------------------------------------------------------------
\* C8
\* ------------------------------------------------------------------------

\* C8: in every state, Close with an invalid code returns InvalidAccess, and
\* Close with a valid or absent code and a reason of more than 123 bytes
\* returns Syntax; either way no field changes and no frame is sent.
C8_CloseRejectsBeforeMutation ==
    [][ (last'.op = "Close" /\ ~(CodeArgValid(last'.args[1]) /\ ReasonArgValid(last'.args[2]))) =>
            /\ last'.result =
                  IF ~CodeArgValid(last'.args[1]) THEN "InvalidAccess" ELSE "Syntax"
            /\ last'.tx = <<>>
            /\ events' = events
            /\ FieldsUnchanged ]_vars

\* Close with an invalid code and an over-long reason, while Open.
C8_Witness ==
    /\ last.op = "Close"
    /\ last.args = << Some(2999), Some(<< <<233, 62>> >>) >>
    /\ last.result = "InvalidAccess"
    /\ ready_state = "Open"

\* ------------------------------------------------------------------------
\* C9
\* ------------------------------------------------------------------------

\* C9: every run of CloseTask sets ready_state to Closed and fires exactly
\* one close event, carrying clean_close, code and reason as they then are;
\* it fires an error event before it iff failed or full was set, and then
\* the close event has wasClean = false and both flags are false afterwards.
C9_CloseTaskEffect ==
    [][ last'.op = "CloseTask" =>
            /\ ready_state' = "Closed"
            /\ IF failed \/ full
               THEN /\ events' = events \o << ErrorEvent, CloseEvent(FALSE, code', reason') >>
                    /\ clean_close' = FALSE
                    /\ failed' = FALSE
                    /\ full' = FALSE
               ELSE events' = Append(events, CloseEvent(clean_close', code', reason')) ]_vars

\* CloseTask has just run with failed set.
C9_Witness ==
    /\ last.op = "CloseTask"
    /\ early_close
    /\ ready_state = "Closed"
    /\ events = << ErrorEvent, CloseEvent(FALSE, 0, <<>>) >>

\* ------------------------------------------------------------------------
\* C10
\* ------------------------------------------------------------------------

\* C10: the sender is present iff ready_state has been Open; so it is
\* present while Open and absent while Connecting.
C10_SenderIffEverOpen ==
    /\ (sender # None) <=> ever_open
    /\ ready_state = "Open" => sender # None
    /\ ready_state = "Connecting" => sender = None

\* The sender is still in place after the state has left Open.
C10_Witness ==
    /\ ever_open
    /\ ready_state = "Closing"
    /\ sender # None

\* ------------------------------------------------------------------------
\* C11
\* ------------------------------------------------------------------------

\* C11: code and reason change only in a step of Close taken while Open, and
\* Close stores them (takes its Open arm) at most once in the life of the
\* connection; Send, Close in any other state and both runnables leave them
\* as they are.
C11_CodeReasonWrittenOnceWhileOpen ==
    [][ /\ (code' # code \/ reason' # reason) =>
              (last'.op = "Close" /\ ready_state = "Open")
        /\ (last'.op = "Close" /\ ready_state = "Open" /\ last'.result = "Ok") =>
              open_close = None ]_vars

\* A later Close with another code and reason has left the stored ones.
C11_Witness ==
    /\ open_close = Some(<< Some(3000), Some(Bye) >>)
    /\ code = 3000
    /\ reason = Bye
    /\ last.op = "Close"
    /\ last.args = << Some(1000), Some(<<>>) >>
    /\ last.result = "Ok"

\* ------------------------------------------------------------------------
\* C12
\* ------------------------------------------------------------------------

\* C12: a call of Close made after a call of Close has already returned Ok
\* leaves code and reason unchanged.
C12_OnlyFirstCloseStores ==
    [][ (last'.op = "Close" /\ close_ok) => (code' = code /\ reason' = reason) ]_vars

\* ------------------------------------------------------------------------
\* C13
\* ------------------------------------------------------------------------

\* Close with every u16 code, in each ready state: the connection is brought
\* to the state, then Close is called with a code and no reason, until one
\* such call has stored its code.
CodeNext ==
    \/ Constructor("ws://host/", None)
    \/ \E ok \in BOOLEAN : Worker(ok)
    \/ ConnectionEstablishedTask_handler
    \/ CloseTask_handler
    \/ Close(None, None, TRUE)
    \/ /\ IF last.op = "Close" THEN last.args[1] = None ELSE TRUE
       /\ IF open_close # None THEN unwrap(open_close)[1] = None ELSE TRUE
       /\ \E c \in AllCodes : Close(Some(c), None, TRUE)

CodeSpec == Init /\ [][CodeNext]_vars

\* C13: for every 16-bit code, Close accepts it iff it is 1000 or lies in
\* 3000..4999, and rejects every other one with InvalidAccess.
C13_CloseCodeRange ==
    (last.op = "Close" /\ last.args[1] # None /\ last.args[2] = None) =>
        LET c == unwrap(last.args[1]) IN
        IF c = 1000 \/ (3000 <= c /\ c <= 4999)
        THEN last.result = "Ok"
        ELSE last.result = "InvalidAccess"

\* The top of the range has been accepted and stored.
C13_Witness ==
    /\ last.op = "Close"
    /\ last.args = << Some(4999), None >>
    /\ last.result = "Ok"
    /\ ready_state = "Closing"
    /\ code = 4999

\* ------------------------------------------------------------------------
\* C14
\* ------------------------------------------------------------------------

\* Close with every reason of AllReasons, in each ready state: the connection
\* is brought to the state, then Close is called with a reason and no code,
\* until one such call has stored its reason.
ReasonNext ==
    \/ Constructor("ws://host/", None)
    \/ \E ok \in BOOLEAN : Worker(ok)
    \/ ConnectionEstablishedTask_handler
    \/ CloseTask_handler
    \/ Close(None, None, TRUE)
    \/ /\ IF last.op = "Close" THEN last.args[2] = None ELSE TRUE
       /\ IF open_close # None THEN unwrap(open_close)[2] = None ELSE TRUE
       /\ \E r \in AllReasons : Close(None, Some(r), TRUE)

ReasonSpec == Init /\ [][ReasonNext]_vars

\* C14: Close accepts a reason iff its UTF-8 encoding has at most 123 bytes,
\* whatever its number of characters, and rejects any other with Syntax.
C14_CloseReasonByteLength ==
    (last.op = "Close" /\ last.args[1] = None /\ last.args[2] # None) =>
        IF ByteLen(unwrap(last.args[2])) <= 123
        THEN last.result = "Ok"
        ELSE last.result = "Syntax"

\* A reason of 62 characters and 124 bytes has been rejected.
C14_Witness ==
    /\ last.op = "Close"
    /\ last.args = << None, Some(<< <<233, 62>> >>) >>
    /\ CharCount(unwrap(last.args[2])) < 124
    /\ ByteLen(unwrap(last.args[2])) = 124
    /\ last.result = "Syntax"
    /\ ready_state = "Open"

\* ------------------------------------------------------------------------
\* C15
\* ------------------------------------------------------------------------

\* Lists of up to MaxProtocols subprotocols.
MaxProtocols == 2
ProtocolLists == UNION { [1..n -> Protocols] : n \in 0..MaxProtocols }

\* A list has an empty entry, an entry with a character outside 0x21..0x7E,
\* or an entry equal to a later one.
ListIllFormed(l) ==
    \E i \in 1..Len(l) :
        \/ Len(l[i]) = 0
        \/ \E k \in 1..Len(l[i]) : l[i][k] \notin 33..126
        \/ \E j \in 1..Len(l) : j > i /\ l[j] = l[i]

\* C15: the constructor returns Syntax iff the URL is not accepted by the
\* parsers or the subprotocol list it was given is ill-formed; the loop of
\* step 5 rejects exactly the ill-formed lists, so ["a","a"] is rejected and
\* ["a","A"] is not; and when the constructor fails there is no object, no
\* thread and no runnable.
C15_ConstructorSyntaxError ==
    /\ last.op = "Constructor" =>
          /\ last.result \in {"Ok", "Syntax"}
          /\ last.result = "Syntax" <=>
                \/ last.args[1] \notin {"ws://host/", "wss://host/"}
                \/ ListIllFormed(as_slice(last.args[2]))
          /\ last.result = "Syntax" => ~created
          /\ \A l \in ProtocolLists : ProtocolsRejected(l) <=> ListIllFormed(l)
          /\ ProtocolsRejected(<< <<97>>, <<97>> >>)
          /\ ~ProtocolsRejected(<< <<97>>, <<65>> >>)
    /\ ~created => (worker = "none" /\ queue = <<>> /\ ran = <<>> /\ events = <<>>)

\* The constructor has rejected a subprotocol with a space in it.
C15_Witness ==
    /\ last.op = "Constructor"
    /\ last.args = << "ws://host/", Some(<<97, 32>>) >>
    /\ last.result = "Syntax"
    /\ ~created
    /\ worker = "none"

\* ------------------------------------------------------------------------
\* C16
\* ------------------------------------------------------------------------

\* C16: Close with valid arguments while Connecting sets failed and Closing,
\* sends no frame (there is no sender), fires no event and leaves code and
\* reason as they were, whether or not a code and a reason were given.
C16_CloseWhileConnecting ==
    [][ ( /\ last'.op = "Close"
          /\ ready_state = "Connecting"
          /\ CodeArgValid(last'.args[1])
          /\ ReasonArgValid(last'.args[2]) ) =>
            /\ last'.result = "Ok"
            /\ failed' = TRUE
            /\ ready_state' = "Closing"
            /\ sender = None
            /\ last'.tx = <<>>
            /\ events' = events
            /\ UNCHANGED << sender, full, clean_close, code, reason >> ]_vars

\* Close(1000, "bye") has run while Connecting.
C16_Witness ==
    /\ last.op = "Close"
    /\ last.args = << Some(1000), Some(Bye) >>
    /\ last.result = "Ok"
    /\ ready_state = "Closing"
    /\ failed
    /\ sender = None
    /\ code = 0
    /\ reason = <<>>
    /\ events = <<>>

\* ------------------------------------------------------------------------
\* C17
\* ------------------------------------------------------------------------

\* C17: Close with valid arguments while Open stores the code if given and
\* the reason if given, sets Closing, sends exactly one close frame, returns
\* Ok whether or not the frame could be sent, leaves failed as it was and
\* fires no event.
C17_CloseWhileOpen ==
    [][ ( /\ last'.op = "Close"
          /\ ready_state = "Open"
          /\ CodeArgValid(last'.args[1])
          /\ ReasonArgValid(last'.args[2]) ) =>
            /\ last'.result = "Ok"
            /\ code' = IF last'.args[1] # None THEN unwrap(last'.args[1]) ELSE code
            /\ reason' = IF last'.args[2] # None THEN unwrap(last'.args[2]) ELSE reason
            /\ ready_state' = "Closing"
            /\ Len(last'.tx) = 1
            /\ last'.tx[1].frame = << "Close", None >>
            /\ events' = events
            /\ UNCHANGED << sender, failed, full, clean_close >> ]_vars

\* Close(3000) has run while Open and its frame could not be sent.
C17_Witness ==
    /\ last.op = "Close"
    /\ last.args = << Some(3000), None >>
    /\ last.result = "Ok"
    /\ last.tx = << [frame |-> << "Close", None >>, ok |-> FALSE] >>
    /\ ready_state = "Closing"
    /\ code = 3000
    /\ reason = <<>>
    /\ ~failed

\* ------------------------------------------------------------------------
\* C18
\* ------------------------------------------------------------------------

C19_SendWhileOpen ==
    [][ (last'.op = "Send" /\ ready_state = "Open") =>
            /\ last'.result = "Ok"
            /\ alive'
            /\ Len(last'.tx) = 1
            /\ last'.tx[1].frame[1] = "Text"
            /\ FieldsUnchanged ]_vars

\* ------------------------------------------------------------------------
\* C20
\* ------------------------------------------------------------------------

\* The spawned thread runs to the end of its closure once the handshake
\* attempt has returned, and the script task runs every runnable it is sent.
FairSpec ==
    /\ Spec
    /\ WF_vars(\E ok \in BOOLEAN : Worker(ok))
    /\ WF_vars(ConnectionEstablishedTask_handler)
    /\ WF_vars(CloseTask_handler)

\* C20: every constructed connection eventually has left Connecting and has
\* had its one runnable run, whatever calls of Send and Close are made.
C20_EventuallyCompletes ==
    created ~> (ready_state # "Connecting" /\ Len(ran) = 1 /\ queue = <<>>)

\* The runnable has run without any call of Close.
C20_Witness ==
    /\ created
    /\ ~close_ok
    /\ ready_state = "Closed"
    /\ ran = << "CloseTask" >>
    /\ queue = <<>>
    /\ last.op = "CloseTask"

====
